---- MODULE Spec2Model ----
(***************************************************************************)
(* Model of bot.py: the /start dispatch (membership gate, deep-link        *)
(* decoding, copy to the requester, ledger insert), the admin upload and   *)
(* preview handlers, and the auto_delete loop that expires delivered       *)
(* copies.  Strings are sequences of one-character strings.  The clock     *)
(* counts hours.  Every transport call (Telegram) and storage call         *)
(* (MongoDB) may raise; which call raises is an input of the action.       *)
(***************************************************************************)
EXTENDS Naturals, Integers, Sequences, FiniteSets, TLC

\* ------------------------------------------------------------------ bounds
MaxTime == 2
MaxDeliveries == 2
MaxUploads == 2
FirstVaultId == 9

\* ------------------------------------------------------- program constants
\* timedelta(hours=1)
TTL_HOURS == 1

ADMIN_IDS == {1, 2}
Users == {1, 2, 3}
ReaperIds == {1}

\* the loop instances of a deployment that runs the process more than once
\* against the same store; instance 1 is the loop of this process
Instances == {1, 2}

\* ChatMember.status values of the platform, and "error" for a lookup that raises
Statuses == {"creator", "administrator", "member", "restricted", "left", "kicked"}
LookupResults == Statuses \cup {"error"}

\* ---------------------------------------------------------------- strings
Digits == <<"0", "1", "2", "3", "4", "5", "6", "7", "8", "9">>

DigitChars == {Digits[i] : i \in 1..10}

DigitVal(c) == (CHOOSE i \in 1..10 : Digits[i] = c) - 1

RECURSIVE str(_)
\* str(n) for n >= 0: the decimal digits of n
str(n) == IF n < 10 THEN <<Digits[n + 1]>>
          ELSE str(n \div 10) \o <<Digits[(n % 10) + 1]>>

startswith(s, p) == /\ Len(s) >= Len(p)
                    /\ SubSeq(s, 1, Len(p)) = p

RECURSIVE split(_, _)
\* s.split(sep) for a one-character separator: the parts between separators,
\* empty parts included
split(s, sep) ==
    IF \A i \in 1..Len(s) : s[i] /= sep THEN <<s>>
    ELSE LET k == CHOOSE i \in 1..Len(s) :
                     /\ s[i] = sep
                     /\ \A j \in 1..(i - 1) : s[j] /= sep
         IN <<SubSeq(s, 1, k - 1)>> \o split(SubSeq(s, k + 1, Len(s)), sep)

RECURSIVE digitsValue(_)
digitsValue(s) == IF s = <<>> THEN 0
                  ELSE 10 * digitsValue(SubSeq(s, 1, Len(s) - 1)) + DigitVal(s[Len(s)])

\* int(s) over the modelled alphabet (letters, "-", digits): a non-empty run
\* of digits parses, everything else raises ValueError
int(s) == IF s /= <<>> /\ \A i \in 1..Len(s) : s[i] \in DigitChars
          THEN [ok |-> TRUE, val |-> digitsValue(s)]
          ELSE [ok |-> FALSE, val |-> 0]

GET == <<"g", "e", "t", "-">>

\* handle_video: payload = f"get-{sent.message_id}"
EncodePayload(message_id) == GET \o str(message_id)

\* a decoder that reads one character after the prefix: int(args[0][4])
DecodePayload_one_char(arg) ==
    IF Len(arg) >= 5 THEN int(<<arg[5]>>) ELSE [ok |-> FALSE, val |-> 0]

\* start: int(args[0].split("-")[1]), reached only when args[0].startswith("get-")
DecodePayload(arg) == int(split(arg, "-")[2])

\* a gate that lets the user in when the lookup raises (fail-open)
is_user_joined_fail_open(lookup) ==
    IF lookup = "error" THEN TRUE
    ELSE lookup \in {"member", "administrator", "creator"}

\* is_user_joined: the lookup result is a status, or "error" when
\* get_chat_member raises (caught, logged, False)
is_user_joined(lookup) ==
    IF lookup = "error" THEN FALSE
    ELSE lookup \in {"member", "administrator", "creator"}


\* ------------------------------------------------------------------- state
VARIABLES
    clock,             \* datetime.utcnow(), in hours
    collection,        \* db["video_logs"]: the ledger of delivered copies
    chat,              \* delivered copies present in the recipients' chats
    nextMsg,           \* next message id the platform gives a delivered copy
    nextOid,           \* next _id the store gives an inserted document
    vaultNext,         \* next message id of the vault channel
    PENDING_PREVIEWS,  \* the dict: admin id -> {"caption": ...}
    channel,           \* announcements posted to the main channel, in order
    rpc,               \* auto_delete: position of each loop instance
    expired,           \* auto_delete: the list read by the last scan
    ri,                \* auto_delete: index of the current doc in expired
    rlog,              \* auto_delete: calls made in the current cycle
    last,              \* the last watched update: calls, replies, outcome
    watching,          \* the handlers whose updates are recorded in last
    req                \* the inputs of the last /start, where they are observed

vars == <<clock, collection, chat, nextMsg, nextOid, vaultNext,
          PENDING_PREVIEWS, channel, rpc, expired, ri, rlog, last,
          watching, req>>

store == <<collection, nextOid>>
reaper == <<rpc, expired, ri, rlog>>
admin == <<vaultNext, PENDING_PREVIEWS, channel>>

\* a dict that keeps the value a key already has (first write wins)
DictSet_keep_first(d, k, v) ==
    [x \in DOMAIN d \cup {k} |-> IF x \in DOMAIN d THEN d[x] ELSE v]

\* dict operations: d[k] = v, and d.pop(k)
DictSet(d, k, v) == [x \in DOMAIN d \cup {k} |-> IF x = k THEN v ELSE d[x]]

\* a pop that returns the value and leaves the key in the dict
DictPop_keep(d, k) == d

DictPop(d, k) == [x \in DOMAIN d \ {k} |-> d[x]]

EmptyDict == <<>>

\* The record of an update: the handler, the sender of a video or an image
\* (message.from_user.id, lines 57 and 111), the gate's answer, the calls
\* made in order, the messages the sender received, the vault id decoded or
\* created, and whether an exception left the handler
NoUpdate == [op |-> "none", from_user |-> 0, joined |-> FALSE,
             outcome |-> "none", calls |-> <<>>, replies |-> {},
             message_id |-> 0, raised |-> FALSE]

NoRequest == [args |-> <<>>, lookup |-> "none"]

\* the handlers an update record can come from
Handlers == {"start", "video", "photo", "restart"}

\* last is the update just handled when its handler is watched, none otherwise
Observe(update) == last' = IF update.op \in watching THEN update ELSE NoUpdate

\* the state after construction, with the handlers of W watched
InitWatching(W) ==
    /\ clock = 0
    /\ collection = {}
    /\ chat = {}
    /\ nextMsg = 1
    /\ nextOid = 1
    /\ vaultNext = FirstVaultId
    /\ PENDING_PREVIEWS = EmptyDict
    /\ channel = <<>>
    /\ rpc = [r \in Instances |-> "scan"]
    /\ expired = [r \in Instances |-> <<>>]
    /\ ri = [r \in Instances |-> 1]
    /\ rlog = [r \in Instances |-> <<>>]
    /\ last = NoUpdate
    /\ watching = W
    /\ req = NoRequest

Init == InitWatching(Handlers)

\* no update is recorded: only the store, the chats and the loop are seen
InitQuiet == InitWatching({})

\* only /start updates are recorded
InitStart == InitWatching({"start"})

\* --------------------------------------------------------- /start handler
\* What /start can carry: nothing, the links handle_video issues, and
\* malformed payloads
VaultIds == FirstVaultId..(FirstVaultId + MaxUploads - 1)

\* trailing text after the number, a suffix that is no number, no number,
\* a negative number, no prefix
BadPayloads == { EncodePayload(FirstVaultId) \o <<"-", "a">>,
                 EncodePayload(FirstVaultId) \o <<"a">>,
                 GET,
                 GET \o <<"-">> \o str(FirstVaultId),
                 str(FirstVaultId) }

StartArgs == {<<>>} \cup {<<EncodePayload(x)>> : x \in VaultIds}
                    \cup {<<p>> : p \in BadPayloads}

\* the call of the handler that raises, if the handler reaches it
StartFaults == {"none", "reply", "copy_message", "send_message", "insert_one"}

\* the document with chat_id and message_id swapped
DeliveryDoc_swapped(oid, user_id, message_id, now) ==
    [_id |-> oid, chat_id |-> message_id, message_id |-> user_id,
     delete_at |-> now + TTL_HOURS]

\* the document start inserts
DeliveryDoc(oid, user_id, message_id, now) ==
    [_id |-> oid, chat_id |-> user_id, message_id |-> message_id,
     delete_at |-> now + TTL_HOURS]

start(user_id, args, lookup, fault) ==
    LET joined == is_user_joined(lookup)
        base == [NoUpdate EXCEPT !.op = "start", !.joined = joined]
    IN
    IF ~joined THEN
        \* lines 136-142: join prompt, return
        /\ Observe([base EXCEPT
                      !.calls = <<"get_chat_member", "reply_text">>,
                      !.outcome = IF fault = "reply" THEN "join_prompt_failed"
                                  ELSE "join_prompt",
                      !.replies = IF fault = "reply" THEN {} ELSE {"join_prompt"}])
        /\ UNCHANGED <<store, chat, nextMsg>>
    ELSE IF args /= <<>> /\ startswith(args[1], GET) THEN
        LET d == DecodePayload(args[1]) IN
        IF ~d.ok THEN
            \* line 145 raises ValueError: caught at 171, logged
            /\ Observe([base EXCEPT !.calls = <<"get_chat_member">>,
                                    !.outcome = "value_error"])
            /\ UNCHANGED <<store, chat, nextMsg>>
        ELSE IF fault = "copy_message" THEN
            \* line 146 raises: caught at 171, logged
            /\ Observe([base EXCEPT
                          !.calls = <<"get_chat_member", "copy_message">>,
                          !.outcome = "copy_failed", !.message_id = d.val])
            /\ UNCHANGED <<store, chat, nextMsg>>
        ELSE
            /\ nextMsg <= MaxDeliveries
            /\ chat' = chat \cup {[chat_id |-> user_id, message_id |-> nextMsg]}
            /\ nextMsg' = nextMsg + 1
            /\ IF fault = "send_message" THEN
                   \* line 151 raises: caught at 171, the insert is skipped
                   /\ Observe([base EXCEPT
                                 !.calls = <<"get_chat_member", "copy_message",
                                             "send_message">>,
                                 !.outcome = "warning_failed",
                                 !.replies = {"copy"},
                                 !.message_id = d.val])
                   /\ UNCHANGED store
               ELSE IF fault = "insert_one" THEN
                   \* line 155 raises: caught at 171, logged
                   /\ Observe([base EXCEPT
                                 !.calls = <<"get_chat_member", "copy_message",
                                             "send_message", "insert_one">>,
                                 !.outcome = "insert_failed",
                                 !.replies = {"copy", "auto_delete_warning"},
                                 !.message_id = d.val])
                   /\ UNCHANGED store
               ELSE
                   /\ Observe([base EXCEPT
                                 !.calls = <<"get_chat_member", "copy_message",
                                             "send_message", "insert_one">>,
                                 !.outcome = "delivered",
                                 !.replies = {"copy", "auto_delete_warning"},
                                 !.message_id = d.val])
                   /\ collection' = collection \cup
                                      {DeliveryDoc(nextOid, user_id, nextMsg, clock)}
                   /\ nextOid' = nextOid + 1
    ELSE
        \* lines 160-169: the static welcome
        /\ Observe([base EXCEPT
                      !.calls = <<"get_chat_member", "reply_photo">>,
                      !.outcome = IF fault = "reply" THEN "welcome_failed"
                                  ELSE "welcome",
                      !.replies = IF fault = "reply" THEN {} ELSE {"welcome"}])
        /\ UNCHANGED <<store, chat, nextMsg>>

\* the calls that start can reach on these inputs, hence the faults that matter
StartFaultsFor(args, lookup) ==
    IF lookup \notin {"member", "administrator", "creator"} THEN {"none", "reply"}
    ELSE IF args /= <<>> /\ startswith(args[1], GET)
         THEN IF DecodePayload(args[1]).ok THEN StartFaults \ {"reply"}
              ELSE {"none"}
         ELSE {"none", "reply"}

\* /start from a user of U with arguments of A, the membership lookup
\* answering a result of L
StartWith(U, A, L) ==
    /\ \E user_id \in U, args \in A, lookup \in L :
          \E fault \in StartFaultsFor(args, lookup) : start(user_id, args, lookup, fault)
    /\ UNCHANGED <<clock, admin, reaper, watching, req>>

\* the same, with the lookup result kept for inspection, and the arguments
\* too when keepArgs
StartObserved(U, A, L, keepArgs) ==
    /\ \E user_id \in U, args \in A, lookup \in L :
          /\ \E fault \in StartFaultsFor(args, lookup) :
                start(user_id, args, lookup, fault)
          /\ req' = [args |-> IF keepArgs THEN args ELSE <<>>, lookup |-> lookup]
    /\ UNCHANGED <<clock, admin, reaper, watching>>

\* /start is sent by an admin (2) or by another user (3); the inputs of the
\* delivery and expiry specification are one payload of each kind (none,
\* issued link, no number), one lookup result of each kind (member, not a
\* member, lookup raises)
Requesters == {2, 3}

CoreArgs == { <<>>, <<EncodePayload(FirstVaultId)>>, <<GET>> }

CoreLookups == {"member", "left", "error"}

Start == StartWith(Requesters, CoreArgs, CoreLookups)

\* /start on every modelled payload and every lookup result
StartAny == StartObserved(Requesters, StartArgs, LookupResults, TRUE)

\* /start on the core inputs, the lookup result observed
StartCore == StartObserved(Requesters, CoreArgs, CoreLookups, FALSE)

Tick ==
    /\ clock < MaxTime
    /\ clock' = clock + 1
    /\ UNCHANGED <<collection, chat, nextMsg, nextOid, admin, reaper, last, watching, req>>


\* ------------------------------------------------------ auto_delete loop
RECURSIVE SortById(_)
\* the documents of S in insertion (_id) order, as find returns them
SortById(S) ==
    IF S = {} THEN <<>>
    ELSE LET d == CHOOSE x \in S : \A y \in S : x._id <= y._id
         IN <<d>> \o SortById(S \ {d})

\* a find without the delete_at filter
find_expired_all(now) == SortById(collection)

\* collection.find({"delete_at": {"$lte": now}})
find_expired(now) == SortById({d \in collection : d.delete_at <= now})

CopyOf(doc) == [chat_id |-> doc.chat_id, message_id |-> doc.message_id]

CurrentDoc(r) == expired[r][ri[r]]

LogEntry(oid, call, ok) == [id |-> oid, call |-> call, ok |-> ok]

\* the for loop moves to the next doc, or the cycle goes to sleep (line 192)
NextDoc(r) ==
    /\ ri' = [ri EXCEPT ![r] = ri[r] + 1]
    /\ rpc' = [rpc EXCEPT ![r] = IF ri[r] + 1 > Len(expired[r]) THEN "sleep"
                                 ELSE "delete"]

\* lines 178-179; a find that raises is caught at line 193 and the loop sleeps
auto_delete_scan(r, ok) ==
    /\ rpc[r] = "scan"
    /\ ri' = [ri EXCEPT ![r] = 1]
    /\ rlog' = [rlog EXCEPT ![r] = <<LogEntry(0, "find", ok)>>]
    /\ IF ok
       THEN /\ expired' = [expired EXCEPT ![r] = find_expired(clock)]
            /\ rpc' = [rpc EXCEPT ![r] = IF find_expired(clock) = <<>> THEN "sleep"
                                         ELSE "delete"]
       ELSE /\ expired' = [expired EXCEPT ![r] = <<>>]
            /\ rpc' = [rpc EXCEPT ![r] = "sleep"]
    /\ UNCHANGED <<clock, store, chat, nextMsg, admin, last, watching, req>>

\* auto_delete_delete with a deletion failure swallowed on the spot: the loop
\* goes on to notify and remove (the best-effort policy)
auto_delete_delete_best_effort(r, ok) ==
    /\ rpc[r] = "delete"
    /\ LET doc == CurrentDoc(r)
           done == ok /\ CopyOf(doc) \in chat
       IN /\ rlog' = [rlog EXCEPT ![r] = Append(@, LogEntry(doc._id, "delete_message", done))]
          /\ chat' = IF done THEN chat \ {CopyOf(doc)} ELSE chat
          /\ rpc' = [rpc EXCEPT ![r] = "notify"]
          /\ UNCHANGED ri
    /\ UNCHANGED <<clock, store, nextMsg, admin, expired, last, watching, req>>

\* line 183: delete_message; the platform refuses to delete a message that is
\* not in the chat; a raise is caught at line 189 and the loop moves on
auto_delete_delete(r, ok) ==
    /\ rpc[r] = "delete"
    /\ LET doc == CurrentDoc(r)
           done == ok /\ CopyOf(doc) \in chat
       IN /\ rlog' = [rlog EXCEPT ![r] = Append(@, LogEntry(doc._id, "delete_message", done))]
          /\ IF done
             THEN /\ chat' = chat \ {CopyOf(doc)}
                  /\ rpc' = [rpc EXCEPT ![r] = "notify"]
                  /\ UNCHANGED ri
             ELSE /\ NextDoc(r)
                  /\ UNCHANGED chat
    /\ UNCHANGED <<clock, store, nextMsg, admin, expired, last, watching, req>>

\* auto_delete_notify with the try around the whole for loop: a send_message
\* that raises ends the cycle
auto_delete_notify_abort(r, ok) ==
    /\ rpc[r] = "notify"
    /\ LET doc == CurrentDoc(r)
       IN /\ rlog' = [rlog EXCEPT ![r] = Append(@, LogEntry(doc._id, "send_message", ok))]
          /\ rpc' = [rpc EXCEPT ![r] = IF ok THEN "remove" ELSE "sleep"]
          /\ UNCHANGED ri
    /\ UNCHANGED <<clock, store, chat, nextMsg, admin, expired, last, watching, req>>

\* line 184: send_message "Video deleted"
auto_delete_notify(r, ok) ==
    /\ rpc[r] = "notify"
    /\ LET doc == CurrentDoc(r)
       IN /\ rlog' = [rlog EXCEPT ![r] = Append(@, LogEntry(doc._id, "send_message", ok))]
          /\ IF ok
             THEN /\ rpc' = [rpc EXCEPT ![r] = "remove"]
                  /\ UNCHANGED ri
             ELSE NextDoc(r)
    /\ UNCHANGED <<clock, store, chat, nextMsg, admin, expired, last, watching, req>>

\* line 188: delete_one by _id
auto_delete_remove(r, ok) ==
    /\ rpc[r] = "remove"
    /\ LET doc == CurrentDoc(r)
       IN /\ rlog' = [rlog EXCEPT ![r] = Append(@, LogEntry(doc._id, "delete_one", ok))]
          /\ collection' = IF ok THEN {d \in collection : d._id /= doc._id}
                           ELSE collection
          /\ NextDoc(r)
    /\ UNCHANGED <<clock, nextOid, chat, nextMsg, admin, expired, last, watching, req>>

\* lines 192, 195: asyncio.sleep(60), then the next cycle
auto_delete_sleep(r) ==
    /\ rpc[r] = "sleep"
    /\ rpc' = [rpc EXCEPT ![r] = "scan"]
    /\ UNCHANGED <<clock, store, chat, nextMsg, admin, expired, ri, rlog, last, watching, req>>

ReaperScan == \E r \in ReaperIds, ok \in BOOLEAN : auto_delete_scan(r, ok)
ReaperDelete == \E r \in ReaperIds, ok \in BOOLEAN : auto_delete_delete(r, ok)
ReaperNotify == \E r \in ReaperIds, ok \in BOOLEAN : auto_delete_notify(r, ok)
ReaperRemove == \E r \in ReaperIds, ok \in BOOLEAN : auto_delete_remove(r, ok)
ReaperSleep == \E r \in ReaperIds : auto_delete_sleep(r)

\* ------------------------------------------------------ admin handlers
\* message.video.thumbnail: absent, fetched, or the fetch fails
Thumbs == {"none", "fetched", "fetch_failed"}

VideoFaults == {"none", "reply", "copy_message", "send_photo"}

Caption(message_id) == [caption |-> EncodePayload(message_id)]

\* an except block that logs and sends nothing
VideoExcept_silent(base, calls, replies, outcome, efail) ==
    [base EXCEPT !.calls = calls, !.outcome = outcome, !.replies = replies]

\* the except block of handle_video (lines 104-106): reply "Something went
\* wrong"; when that reply raises too, the exception leaves the handler
VideoExcept(base, calls, replies, outcome, efail) ==
    [base EXCEPT !.calls = calls \o <<"reply_text">>,
                 !.outcome = outcome,
                 !.replies = IF efail THEN replies
                             ELSE replies \cup {"something_went_wrong"},
                 !.raised = efail]

handle_video(user_id, thumb, fault, efail) ==
    LET base == [NoUpdate EXCEPT !.op = "video", !.from_user = user_id] IN
    IF user_id \notin ADMIN_IDS THEN
        /\ Observe(IF fault = "reply"
                   THEN VideoExcept(base, <<"reply_text">>, {}, "unauthorized", efail)
                   ELSE [base EXCEPT !.calls = <<"reply_text">>,
                                     !.outcome = "unauthorized",
                                     !.replies = {"not_authorized"}])
        /\ UNCHANGED admin
    ELSE IF fault = "copy_message" THEN
        /\ Observe(VideoExcept(base, <<"copy_message">>, {}, "vault_write_failed", efail))
        /\ UNCHANGED admin
    ELSE
        /\ vaultNext < FirstVaultId + MaxUploads
        /\ vaultNext' = vaultNext + 1
        /\ LET sent == vaultNext
               stored == [base EXCEPT !.message_id = sent]
               preview == thumb = "fetched"
               fetch == IF thumb = "none" THEN <<>> ELSE <<"get_file">>
           IN
           IF preview THEN
               IF fault = "send_photo" THEN
                   /\ Observe(VideoExcept(stored, <<"copy_message">> \o fetch \o <<"send_photo">>,
                                          {}, "announce_failed", efail))
                   /\ UNCHANGED <<PENDING_PREVIEWS, channel>>
               ELSE
                   /\ channel' = Append(channel, [caption |-> Caption(sent).caption,
                                                  photo |-> "thumbnail"])
                   /\ Observe(IF fault = "reply"
                              THEN VideoExcept(stored,
                                      <<"copy_message">> \o fetch \o <<"send_photo", "reply_text">>,
                                      {}, "posted", efail)
                              ELSE [stored EXCEPT
                                      !.calls = <<"copy_message">> \o fetch \o
                                                <<"send_photo", "reply_text">>,
                                      !.outcome = "posted",
                                      !.replies = {"video_posted"}])
                   /\ UNCHANGED PENDING_PREVIEWS
           ELSE
               /\ PENDING_PREVIEWS' = DictSet(PENDING_PREVIEWS, user_id, Caption(sent))
               /\ Observe(IF fault = "reply"
                          THEN VideoExcept(stored, <<"copy_message">> \o fetch \o <<"reply_text">>,
                                           {}, "pending", efail)
                          ELSE [stored EXCEPT
                                  !.calls = <<"copy_message">> \o fetch \o <<"reply_text">>,
                                  !.outcome = "pending",
                                  !.replies = {"no_thumbnail"}])
               /\ UNCHANGED channel

\* the calls that handle_video can reach on these inputs
VideoFaultsFor(user_id, thumb) ==
    IF user_id \notin ADMIN_IDS THEN {"none", "reply"}
    ELSE IF thumb = "fetched" THEN VideoFaults
    ELSE VideoFaults \ {"send_photo"}

\* the thumbnail is looked at for an admin only
ThumbsFor(user_id) == IF user_id \in ADMIN_IDS THEN Thumbs ELSE {"none"}

HandleVideo ==
    /\ \E user_id \in Users :
          \E thumb \in ThumbsFor(user_id) :
              \E fault \in VideoFaultsFor(user_id, thumb) :
                  \E efail \in IF fault = "none" THEN {FALSE} ELSE BOOLEAN :
                      handle_video(user_id, thumb, fault, efail)
    /\ UNCHANGED <<clock, store, chat, nextMsg, reaper, watching, req>>

PhotoFaults == {"none", "reply", "send_photo"}

\* handle_photo has no try: a call that raises leaves the handler
handle_photo(user_id, fault) ==
    LET base == [NoUpdate EXCEPT !.op = "photo", !.from_user = user_id] IN
    IF user_id \notin ADMIN_IDS THEN
        /\ Observe([base EXCEPT !.outcome = "ignored"])
        /\ UNCHANGED admin
    ELSE IF user_id \in DOMAIN PENDING_PREVIEWS THEN
        LET data == PENDING_PREVIEWS[user_id] IN
        /\ PENDING_PREVIEWS' = DictPop(PENDING_PREVIEWS, user_id)
        /\ IF fault = "send_photo" THEN
               /\ Observe([base EXCEPT !.calls = <<"send_photo">>,
                                       !.outcome = "announce_failed",
                                       !.raised = TRUE])
               /\ UNCHANGED <<vaultNext, channel>>
           ELSE
               /\ channel' = Append(channel, [caption |-> data.caption, photo |-> "image"])
               /\ Observe([base EXCEPT !.calls = <<"send_photo", "reply_text">>,
                                       !.outcome = "preview_posted",
                                       !.replies = IF fault = "reply" THEN {}
                                                   ELSE {"preview_posted"},
                                       !.raised = (fault = "reply")])
               /\ UNCHANGED vaultNext
    ELSE
        /\ Observe([base EXCEPT !.calls = <<"reply_text">>,
                                !.outcome = "no_pending",
                                !.replies = IF fault = "reply" THEN {}
                                            ELSE {"no_pending_preview"},
                                !.raised = (fault = "reply")])
        /\ UNCHANGED admin

\* the calls that handle_photo can reach on these inputs
PhotoFaultsFor(user_id) ==
    IF user_id \notin ADMIN_IDS THEN {"none"}
    ELSE IF user_id \in DOMAIN PENDING_PREVIEWS THEN PhotoFaults
    ELSE PhotoFaults \ {"send_photo"}

HandlePhoto ==
    /\ \E user_id \in Users :
          \E fault \in PhotoFaultsFor(user_id) : handle_photo(user_id, fault)
    /\ UNCHANGED <<clock, store, chat, nextMsg, reaper, watching, req>>

\* ------------------------------------------------------ process restart
\* The process is stopped and started again: the store and the chats persist,
\* PENDING_PREVIEWS and the loop start afresh (lines 42, 210)
Restart ==
    /\ PENDING_PREVIEWS' = EmptyDict
    /\ rpc' = [r \in Instances |-> IF r \in ReaperIds THEN "scan" ELSE rpc[r]]
    /\ expired' = [r \in Instances |-> IF r \in ReaperIds THEN <<>> ELSE expired[r]]
    /\ ri' = [r \in Instances |-> IF r \in ReaperIds THEN 1 ELSE ri[r]]
    /\ rlog' = [r \in Instances |-> IF r \in ReaperIds THEN <<>> ELSE rlog[r]]
    /\ Observe([NoUpdate EXCEPT !.op = "restart"])
    /\ UNCHANGED <<clock, store, chat, nextMsg, vaultNext, channel, watching, req>>

\* Delivery and expiry: /start requests, the auto_delete loop, the clock
Next ==
    \/ Start
    \/ ReaperScan
    \/ ReaperDelete
    \/ ReaperNotify
    \/ ReaperRemove
    \/ ReaperSleep
    \/ Tick
    \/ Restart

Spec == Init /\ [][Next]_vars

\* The same steps with no update recorded: the ledger, the chats and the loop
SpecExpiry == InitQuiet /\ [][Next]_vars

\* Scheduling of the loop: its thread keeps running (line 176, while True),
\* and a call that fails only transiently succeeds on some retry
Oids == 1..MaxDeliveries

ReaperStep(r) ==
    \/ \E ok \in BOOLEAN : auto_delete_scan(r, ok)
    \/ \E ok \in BOOLEAN : auto_delete_delete(r, ok)
    \/ \E ok \in BOOLEAN : auto_delete_notify(r, ok)
    \/ \E ok \in BOOLEAN : auto_delete_remove(r, ok)
    \/ auto_delete_sleep(r)

ScanOk(r) == auto_delete_scan(r, TRUE)

DeleteOk(r, oid) ==
    /\ auto_delete_delete(r, TRUE)
    /\ CurrentDoc(r)._id = oid
    /\ rpc'[r] = "notify"

NotifyOk(r, oid) ==
    /\ auto_delete_notify(r, TRUE)
    /\ CurrentDoc(r)._id = oid

RemoveOk(r, oid) ==
    /\ auto_delete_remove(r, TRUE)
    /\ CurrentDoc(r)._id = oid

Fairness ==
    \A r \in ReaperIds :
        /\ WF_vars(ReaperStep(r))
        /\ SF_vars(ScanOk(r))
        /\ \A oid \in Oids :
              /\ SF_vars(DeleteOk(r, oid))
              /\ SF_vars(NotifyOk(r, oid))
              /\ SF_vars(RemoveOk(r, oid))

\* One uninterrupted run of the process, fairly scheduled
NextRun ==
    \/ Start
    \/ ReaperScan
    \/ ReaperDelete
    \/ ReaperNotify
    \/ ReaperRemove
    \/ ReaperSleep
    \/ Tick

SpecFair == InitQuiet /\ [][NextRun]_vars /\ Fairness

\* Several instances of the loop against one store: the steps of the
\* instances interleave freely, every instance keeps running, and no call
\* raises except a delete_message the platform refuses
InstanceStep(r) ==
    \/ auto_delete_scan(r, TRUE)
    \/ auto_delete_delete(r, TRUE)
    \/ auto_delete_notify(r, TRUE)
    \/ auto_delete_remove(r, TRUE)
    \/ auto_delete_sleep(r)

InstancesStep == \E r \in Instances : InstanceStep(r)

\* a member who is no admin opens an issued link and every call succeeds
Deliver ==
    /\ \E user_id \in Requesters \ ADMIN_IDS :
          start(user_id, <<EncodePayload(FirstVaultId)>>, "member", "none")
    /\ UNCHANGED <<clock, admin, reaper, watching, req>>

NextInstances ==
    \/ Deliver
    \/ InstancesStep
    \/ Tick

SpecInstances ==
    /\ InitQuiet
    /\ [][NextInstances]_vars
    /\ \A r \in Instances : WF_vars(InstanceStep(r))

\* The /start handler alone, on every modelled payload and lookup result
NextStart == StartAny

SpecStart == Init /\ [][NextStart]_vars

\* The three update handlers, the loop not running
NextUpdates ==
    \/ StartCore
    \/ HandleVideo
    \/ HandlePhoto

SpecUpdates == Init /\ [][NextUpdates]_vars

\* The admin path alone: uploads and preview images
NextAdmin ==
    \/ HandleVideo
    \/ HandlePhoto

SpecAdmin == Init /\ [][NextAdmin]_vars

\* /start requests between uploads, only the /start updates recorded
NextGate ==
    \/ StartCore
    \/ HandleVideo

SpecGate == InitStart /\ [][NextGate]_vars


\* ================================================================ claims
LogHas(r, oid, call, ok) ==
    \E i \in 1..Len(rlog[r]) : rlog[r][i] = LogEntry(oid, call, ok)

\* the cycle of r has run to its sleep after a scan that succeeded
CycleDone(r) ==
    /\ rpc[r] = "sleep"
    /\ rlog[r] /= <<>>
    /\ rlog[r][1] = LogEntry(0, "find", TRUE)

DueDocs(r) == {expired[r][i] : i \in 1..Len(expired[r])}

\* C1 (as stated): at the end of a cycle every due record of the cycle is out
\* of the ledger, whether or not delete_message and send_message succeeded
\* (a record whose delete_one itself raised is left aside).
C1_RemovedWhateverFails ==
    \A r \in ReaperIds :
        CycleDone(r) =>
            \A d \in DueDocs(r) :
                ~LogHas(r, d._id, "delete_one", FALSE) => d \notin collection

\* C1 (amended): for every due record the calls run in the order
\* delete_message, send_message, delete_one, each only after the one before
\* it succeeded; a due record of the cycle is out of the ledger exactly when
\* its delete_one ran and succeeded, so a failed deletion or notification
\* leaves the record in the ledger.
C1_RemovedOnlyAfterBothSucceed ==
    \A r \in ReaperIds :
        /\ \A i \in 1..Len(rlog[r]) :
              LET e == rlog[r][i] IN
              /\ e.call = "find" => i = 1
              /\ e.call = "delete_message" =>
                    /\ i > 1
                    /\ rlog[r][i - 1].id /= e.id
                    /\ \E d \in DueDocs(r) : d._id = e.id
              /\ e.call = "send_message" =>
                    /\ i > 1
                    /\ rlog[r][i - 1] = LogEntry(e.id, "delete_message", TRUE)
              /\ e.call = "delete_one" =>
                    /\ i > 1
                    /\ rlog[r][i - 1] = LogEntry(e.id, "send_message", TRUE)
        /\ \A d \in DueDocs(r) :
              d \notin collection <=> LogHas(r, d._id, "delete_one", TRUE)

\* C1 witness: a cycle has ended in which the deletion of one due record
\* failed and the notification of another failed, and both are in the ledger
C1_Witness ==
    \E r \in ReaperIds :
        /\ CycleDone(r)
        /\ \E d1, d2 \in DueDocs(r) :
              /\ LogHas(r, d1._id, "delete_message", FALSE)
              /\ LogHas(r, d2._id, "send_message", FALSE)
              /\ d1 \in collection
              /\ d2 \in collection


InLedger(oid) == \E d \in collection : d._id = oid

Due(oid) == \E d \in collection : d._id = oid /\ d.delete_at <= clock

\* C2: under fair scheduling of the loop and calls that fail only
\* transiently, every record that becomes due is eventually removed from the
\* ledger; no due record stays in the ledger forever.
C2_DueRecordEventuallyRemoved ==
    \A oid \in Oids : Due(oid) ~> ~InLedger(oid)


Called(u, call) == \E i \in 1..Len(u.calls) : u.calls[i] = call

\* the copy delivered by the latest successful copy_message
LastCopyId == nextMsg - 1

\* C3: once the copy to the requester has succeeded, the copy has a record in
\* the ledger unless the insert itself failed: while the copy delivered by
\* the last /start is in the chat, it is in the ledger or insert_one raised.
C3_CopyTrackedUnlessInsertFailed ==
    (/\ last.op = "start"
     /\ "copy" \in last.replies
     /\ \E c \in chat : c.message_id = LastCopyId)
    => \/ \E d \in collection : d.message_id = LastCopyId
       \/ last.outcome = "insert_failed"

MemberStatuses == {"member", "administrator", "creator"}

\* C4: a /start whose requester fails the gate (a status outside member,
\* administrator, creator, or a lookup that raises) calls neither
\* copy_message nor insert_one, sends at most the join prompt, and leaves the
\* ledger, the chats, PENDING_PREVIEWS and the channel unchanged.
C4_GateFailureHasNoEffect ==
    [][(last'.op = "start" /\ req'.lookup \notin MemberStatuses) =>
          /\ collection' = collection
          /\ nextOid' = nextOid
          /\ chat' = chat
          /\ PENDING_PREVIEWS' = PENDING_PREVIEWS
          /\ channel' = channel
          /\ ~Called(last', "copy_message")
          /\ ~Called(last', "insert_one")
          /\ last'.replies \subseteq {"join_prompt"}]_vars

\* C4 witness: a gate failure answered with the join prompt while a preview
\* is pending and a record is in the ledger
C4_Witness ==
    /\ last.op = "start"
    /\ req.lookup \in {"left", "error"}
    /\ last.replies = {"join_prompt"}
    /\ DOMAIN PENDING_PREVIEWS /= {}
    /\ collection /= {}

\* a transition of the delivery specification that is a /start update
StartStep ==
    /\ last'.op = "start"
    /\ UNCHANGED <<clock, rpc, expired, ri, rlog>>

\* C5: a /start that delivered a copy (and whose insert_one did not raise)
\* adds exactly one record to the ledger: recipient = the chat the copy went
\* to, message = the copy, delete_at = now + 1 hour; no other record changes.
C5_OneRecordPerDelivery ==
    [][(StartStep /\ chat' \ chat /= {} /\ last'.outcome /= "insert_failed") =>
          \E c \in chat' \ chat :
              \E d \in collection' \ collection :
                  /\ collection' = collection \cup {d}
                  /\ d.chat_id = c.chat_id
                  /\ d.message_id = c.message_id
                  /\ d.delete_at = clock + TTL_HOURS]_vars

IsDecimal(t) == t /= <<>> /\ \A i \in 1..Len(t) : t[i] \in DigitChars

\* p is exactly "get-" followed by an integer (decimal digits, with or
\* without a minus sign)
IsGetInteger(p) ==
    /\ startswith(p, GET)
    /\ LET t == SubSeq(p, Len(GET) + 1, Len(p))
       IN \/ IsDecimal(t)
          \/ t /= <<>> /\ t[1] = "-" /\ IsDecimal(Tail(t))

\* C6: a /start whose payload is not exactly "get-" followed by an integer
\* never copies a vault item to the requester.
C6_MalformedPayloadNeverCopied ==
    (/\ last.op = "start"
     /\ req.args /= <<>>
     /\ ~IsGetInteger(req.args[1]))
    => ~Called(last, "copy_message")

\* C7: for every vault message id x, a /start of a member with the payload
\* handle_video builds for x decodes it to x: the payload is not rejected,
\* and the copy is requested for vault message x.
C7_RoundTrip ==
    \A x \in VaultIds :
        (/\ last.op = "start"
         /\ last.joined
         /\ req.args = <<EncodePayload(x)>>)
        => /\ last.outcome \in {"copy_failed", "warning_failed", "insert_failed",
                                "delivered"}
           /\ last.message_id = x

\* C7 witness: the link of a two-digit vault id was decoded and delivered
C7_Witness ==
    /\ last.op = "start"
    /\ req.args = <<EncodePayload(FirstVaultId + 1)>>
    /\ Len(req.args[1]) > Len(GET) + 1
    /\ last.outcome = "delivered"
    /\ last.message_id = FirstVaultId + 1

\* C8: the gate answers true exactly when the lookup succeeded with a status
\* of member, administrator or creator; a lookup that raises does not leave
\* the gate: the handler goes on to the join prompt.
C8_GateFailClosed ==
    last.op = "start" =>
        /\ last.joined <=> req.lookup \in MemberStatuses
        /\ ~last.joined => last.calls = <<"get_chat_member", "reply_text">>
        /\ last.joined => /\ Len(last.calls) >= 1
                          /\ last.calls[1] = "get_chat_member"
                          /\ ~Called(last, "reply_text")

\* C8 witness: a lookup that raised was answered false and the join prompt
\* was sent
C8_Witness ==
    /\ last.op = "start"
    /\ req.lookup = "error"
    /\ ~last.joined
    /\ last.replies = {"join_prompt"}

\* C9: every record of the ledger, and every document the loop works on,
\* refers to a copy that copy_message delivered, to the chat the record
\* names, and no two records refer to the same copy; a /start whose copy
\* failed or whose payload did not decode adds no record.
C9_LedgerSound ==
    /\ \A d \in collection :
          /\ d.message_id \in 1..LastCopyId
          /\ \A c \in chat : c.message_id = d.message_id => c.chat_id = d.chat_id
          /\ \A e \in collection : e.message_id = d.message_id => e = d
    /\ \A r \in ReaperIds : \A d \in DueDocs(r) : d.message_id \in 1..LastCopyId
    /\ Cardinality(collection) <= LastCopyId

\* C9 witness: the ledger holds the records of two delivered copies, each
\* still in the chat its record names, and the loop is about to delete the
\* copy of one of them
C9_Witness ==
    /\ Cardinality(collection) = 2
    /\ \A d \in collection : CopyOf(d) \in chat
    /\ \E r \in ReaperIds :
          /\ rpc[r] = "delete"
          /\ CurrentDoc(r) \in collection

\* what /start sends when nothing fails
NormalStartReplies == {"join_prompt", "welcome", "copy", "auto_delete_warning"}

\* C10: a gate-passing /start that fails (payload does not decode, the copy
\* fails, or the insert fails) sends the requester a failure message.
C10_FailureReported ==
    (/\ last.op = "start"
     /\ last.outcome \in {"value_error", "copy_failed", "insert_failed"})
    => last.replies \ NormalStartReplies /= {}

\* the entries of every admin other than a are as they were before the step
OthersKeep(a) ==
    \A b \in ADMIN_IDS \ {a} :
        /\ b \in DOMAIN PENDING_PREVIEWS' <=> b \in DOMAIN PENDING_PREVIEWS
        /\ b \in DOMAIN PENDING_PREVIEWS =>
              PENDING_PREVIEWS'[b] = PENDING_PREVIEWS[b]

\* C11: PENDING_PREVIEWS has at most one entry per admin, a caption; a
\* deferred upload (no thumbnail) leaves the uploader's entry holding the
\* caption of that upload, replacing the entry the uploader had, and no
\* video or image of one admin changes the entry of another admin.
C11_LastWriteWins ==
    /\ [](/\ DOMAIN PENDING_PREVIEWS \subseteq ADMIN_IDS
          /\ \A a \in DOMAIN PENDING_PREVIEWS :
                DOMAIN PENDING_PREVIEWS[a] = {"caption"}
          /\ (last.op = "video" /\ last.outcome = "pending") =>
                /\ last.from_user \in DOMAIN PENDING_PREVIEWS
                /\ PENDING_PREVIEWS[last.from_user] = Caption(last.message_id))
    /\ [][/\ last'.op \in {"video", "photo"} => OthersKeep(last'.from_user)
          /\ (/\ last'.op = "video"
              /\ last'.outcome = "pending"
              /\ last'.from_user \in DOMAIN PENDING_PREVIEWS) =>
                PENDING_PREVIEWS' =
                    [PENDING_PREVIEWS EXCEPT
                        ![last'.from_user] = Caption(last'.message_id)]]_vars

\* C11 witness: after two uploads and no announcement, the only entry is
\* that of admin 1 and holds the caption of the second upload, which admin 1
\* has just made without a thumbnail
C11_Witness ==
    /\ last.op = "video"
    /\ last.outcome = "pending"
    /\ last.from_user = 1
    /\ last.message_id = FirstVaultId + 1
    /\ DOMAIN PENDING_PREVIEWS = {1}
    /\ PENDING_PREVIEWS[1] = Caption(FirstVaultId + 1)
    /\ channel = <<>>

\* an image has just been handled, and no call of the handler raised
PhotoStep == last'.op = "photo" /\ ~last'.raised

\* C12 (as stated): an image from any identity that has no entry in
\* PENDING_PREVIEWS is answered "No pending preview request" and changes
\* nothing.
C12_AnyImageWithoutEntryAnswered ==
    [][(PhotoStep /\ last'.from_user \notin DOMAIN PENDING_PREVIEWS) =>
          /\ last'.replies = {"no_pending_preview"}
          /\ UNCHANGED admin]_vars

\* C12 (amended): an image from a sender outside ADMIN_IDS is ignored: no
\* call, no reply, no change.  An image from an admin with no entry is
\* answered "No pending preview request" and changes nothing.  An image from
\* an admin with an entry removes the entry, then posts the stored caption
\* with the image (nothing is posted when send_photo raises).  No caption is
\* posted twice, and a caption still pending has not been posted.
C12_AdminImageResolved ==
    /\ [](/\ \A i, j \in 1..Len(channel) :
                channel[i].caption = channel[j].caption => i = j
          /\ \A a \in DOMAIN PENDING_PREVIEWS : \A i \in 1..Len(channel) :
                channel[i].caption /= PENDING_PREVIEWS[a].caption)
    /\ [][last'.op = "photo" =>
            LET u == last'.from_user IN
            /\ vaultNext' = vaultNext
            /\ u \notin ADMIN_IDS =>
                  /\ last'.calls = <<>>
                  /\ last'.replies = {}
                  /\ UNCHANGED admin
            /\ (u \in ADMIN_IDS /\ u \notin DOMAIN PENDING_PREVIEWS) =>
                  /\ last'.calls = <<"reply_text">>
                  /\ ~last'.raised => last'.replies = {"no_pending_preview"}
                  /\ UNCHANGED admin
            /\ u \in DOMAIN PENDING_PREVIEWS =>
                  /\ u \notin DOMAIN PENDING_PREVIEWS'
                  /\ OthersKeep(u)
                  /\ last'.calls[1] = "send_photo"
                  /\ \/ channel' = Append(channel,
                                          [caption |-> PENDING_PREVIEWS[u].caption,
                                           photo |-> "image"])
                     \/ /\ channel' = channel
                        /\ last'.outcome = "announce_failed"
                        /\ last'.raised]_vars

\* C12 witness: the image of an admin has resolved the pending preview of
\* the first upload: the entry is gone and the caption is posted with the
\* image
C12_Witness ==
    /\ last.op = "photo"
    /\ last.outcome = "preview_posted"
    /\ last.from_user \notin DOMAIN PENDING_PREVIEWS
    /\ Len(channel) >= 1
    /\ channel[Len(channel)] = [caption |-> Caption(FirstVaultId).caption,
                                photo |-> "image"]

\* C13: a video from a sender outside ADMIN_IDS is answered "You are not
\* authorized" and copies nothing to the vault, posts nothing and adds no
\* entry; a video whose copy to the vault raises is answered "Something
\* went wrong" and leaves the vault, PENDING_PREVIEWS and the channel as
\* they were (an answer is missing only when the reply itself raises).
C13_RefusedUploadHasNoEffect ==
    [][/\ (last'.op = "video" /\ last'.from_user \notin ADMIN_IDS) =>
              /\ UNCHANGED admin
              /\ ~Called(last', "copy_message")
              /\ ~Called(last', "send_photo")
              /\ last'.calls[1] = "reply_text"
              /\ Len(last'.calls) = 1 => last'.replies = {"not_authorized"}
              /\ "video_posted" \notin last'.replies
              /\ "no_thumbnail" \notin last'.replies
       /\ (last'.op = "video" /\ last'.outcome = "vault_write_failed") =>
              /\ UNCHANGED admin
              /\ last'.calls = <<"copy_message", "reply_text">>
              /\ last'.message_id = 0
              /\ ~last'.raised => last'.replies = {"something_went_wrong"}]_vars

\* C13 witness: the vault copy of an admin's video has failed and was
\* reported, while an entry is pending and an announcement is in the channel
C13_Witness ==
    /\ last.op = "video"
    /\ last.from_user \in ADMIN_IDS
    /\ last.outcome = "vault_write_failed"
    /\ last.replies = {"something_went_wrong"}
    /\ DOMAIN PENDING_PREVIEWS /= {}
    /\ channel /= <<>>

\* C14: no exception leaves a handler: whatever call raises while a video,
\* an image or a /start is handled, the handler catches it and returns.
C14_NoFailureEscapes ==
    last.op \in {"video", "photo", "start"} => ~last.raised

\* the step is a scan of r that succeeded: a new cycle begins
ScanStep(r) ==
    /\ rpc[r] = "scan"
    /\ rpc'[r] /= "scan"
    /\ rlog'[r][1] = LogEntry(0, "find", TRUE)

\* C15: a record read by the scan of a cycle is out of the ledger only if
\* delete_message succeeded for it in that cycle; a record whose
\* delete_message failed in the cycle stays in the ledger, and the scan of
\* the next cycle reads it again.
C15_CommitOnSuccess ==
    /\ [](\A r \in ReaperIds : \A d \in DueDocs(r) :
              /\ d \notin collection => LogHas(r, d._id, "delete_message", TRUE)
              /\ LogHas(r, d._id, "delete_message", FALSE) => d \in collection)
    /\ [][\A r \in ReaperIds :
              ScanStep(r) =>
                  \A d \in DueDocs(r) :
                      LogHas(r, d._id, "delete_message", FALSE) =>
                          \E i \in 1..Len(expired'[r]) : expired'[r][i] = d]_vars

\* C15 witness: a cycle is over in which delete_message failed for a due
\* record; the record is in the ledger and the next scan is about to run
C15_Witness ==
    \E r \in ReaperIds :
        /\ rpc[r] = "scan"
        /\ \E d \in DueDocs(r) :
              /\ LogHas(r, d._id, "delete_message", FALSE)
              /\ d \in collection
              /\ d.delete_at <= clock

\* delete_message was called for the record oid in the current cycle of r
Attempted(r, oid) ==
    \/ LogHas(r, oid, "delete_message", TRUE)
    \/ LogHas(r, oid, "delete_message", FALSE)

\* C16: whatever call fails for a due record, the for loop goes on: while a
\* cycle runs every record before the current one was attempted, and when
\* the cycle is over every record its scan returned was attempted.
C16_EveryDueRecordAttempted ==
    \A r \in ReaperIds :
        /\ rpc[r] \in {"delete", "notify", "remove"} =>
              /\ ri[r] \in 1..Len(expired[r])
              /\ \A i \in 1..(ri[r] - 1) : Attempted(r, expired[r][i]._id)
        /\ CycleDone(r) =>
              \A d \in DueDocs(r) : Attempted(r, d._id)

\* C16 witness: a cycle is over in which the first due record failed (its
\* notification or its delete_one raised) and the second was still deleted,
\* notified and removed
C16_Witness ==
    \E r \in ReaperIds :
        /\ CycleDone(r)
        /\ Len(expired[r]) = 2
        /\ \/ LogHas(r, expired[r][1]._id, "send_message", FALSE)
           \/ LogHas(r, expired[r][1]._id, "delete_one", FALSE)
        /\ LogHas(r, expired[r][2]._id, "delete_one", TRUE)

\* the calls that act on a record
RecordCalls == {"delete_message", "send_message", "delete_one"}

C18_NoEarlyExpiry ==
    /\ [](\A r \in ReaperIds :
              /\ \A d \in DueDocs(r) : d.delete_at <= clock
              /\ \A i \in 1..Len(rlog[r]) :
                    rlog[r][i].call \in RecordCalls =>
                        \E d \in DueDocs(r) : d._id = rlog[r][i].id)
    /\ [][/\ \A d \in collection' \ collection :
                /\ d.delete_at = clock + TTL_HOURS
                /\ CopyOf(d) \in chat' \ chat
                /\ \A r \in ReaperIds : d \notin DueDocs(r)
          /\ \A c \in chat \ chat' :
                \E d \in collection : CopyOf(d) = c /\ d.delete_at <= clock
          /\ \A d \in collection \ collection' : d.delete_at <= clock]_vars

\* C18 witness: a cycle has deleted the copy of a due record while the
\* ledger holds a record that is not due, which the cycle did not read
C18_Witness ==
    \E r \in ReaperIds :
        /\ rpc[r] \in {"notify", "remove"}
        /\ LogHas(r, CurrentDoc(r)._id, "delete_message", TRUE)
        /\ \E d \in collection :
              /\ d.delete_at > clock
              /\ d \notin DueDocs(r)
              /\ CopyOf(d) \in chat

\* send_message was called for the record oid in the current cycle of r
Notified(r, oid) ==
    \/ LogHas(r, oid, "send_message", TRUE)
    \/ LogHas(r, oid, "send_message", FALSE)

\* C19: the "Video deleted" notice of a record is sent only right after
\* delete_message succeeded for that record in the same cycle, when the copy
\* is out of the chat; for a record whose delete_message failed in the
\* cycle no notice is sent in that cycle.
C19_NoticeTruthful ==
    \A r \in ReaperIds :
        /\ \A i \in 1..Len(rlog[r]) :
              rlog[r][i].call = "send_message" =>
                  /\ i > 1
                  /\ rlog[r][i - 1] = LogEntry(rlog[r][i].id, "delete_message", TRUE)
                  /\ \A d \in DueDocs(r) :
                        d._id = rlog[r][i].id => CopyOf(d) \notin chat
        /\ rpc[r] = "notify" => CopyOf(CurrentDoc(r)) \notin chat
        /\ \A d \in DueDocs(r) :
              LogHas(r, d._id, "delete_message", FALSE) => ~Notified(r, d._id)

\* C19 witness: in one cycle the notice was sent for a record whose copy
\* was deleted, and no notice was sent for a record whose deletion failed
C19_Witness ==
    \E r \in ReaperIds :
        /\ CycleDone(r)
        /\ \E d1, d2 \in DueDocs(r) :
              /\ LogHas(r, d1._id, "send_message", TRUE)
              /\ CopyOf(d1) \notin chat
              /\ LogHas(r, d2._id, "delete_message", FALSE)
              /\ ~Notified(r, d2._id)

\* C20: an entry of PENDING_PREVIEWS holds the caption of the latest video
\* its admin copied to the vault: right after an admin's video was stored
\* (posted with its thumbnail, or left pending), the entry of that admin, if
\* there is one, carries the link of that video.
C20_PendingIsLatestUpload ==
    (/\ last.op = "video"
     /\ last.outcome \in {"posted", "pending"}
     /\ last.from_user \in DOMAIN PENDING_PREVIEWS)
    => PENDING_PREVIEWS[last.from_user] = Caption(last.message_id)

====
